---- MODULE Spec2Model ----
(***************************************************************************)
(* transtab/dataset.py: load_data.                                         *)
(*                                                                         *)
(* load_data is one synchronous function.  The model follows one call      *)
(* through its stages; pc is the position of the call:                     *)
(*   "resolve"  lines 29-88   source resolution and column roles           *)
(*   "encode"   lines 90-116  per-role imputation and encoding             *)
(*   "split"    lines 118-124 stratified split and validation carve-out    *)
(*   "cut"      lines 126-148 column/row sharding (data_cut given)         *)
(*   "returned" lines 148,152 the 7-tuple has been returned                *)
(*   "raised"   an exception left the function (err names it)              *)
(*                                                                         *)
(* Spec    follows whole calls (data_cut = None) on tables of NRows rows   *)
(*         whose contents, sidecar files and dataset_config vary.          *)
(* SpecCut follows calls from line 118 on, for encoded tables of up to     *)
(*         MaxRows rows and MaxCols columns and every data_cut.            *)
(*                                                                         *)
(* Numbers are exact: a scaled value is the fraction n/d, and the          *)
(* rounding of floating point is not modelled.                             *)
(***************************************************************************)
EXTENDS Integers, Sequences, FiniteSets, TLC

VARIABLES
  pc,                    \* position of the call (see above)
  err,                   \* the exception raised, "" if none
  local,                 \* os.path.exists(dataname)
  dataset_config,        \* dataname -> record with optional fields cols, bin, binary_indicator
  num_file,              \* lines of numerical_feature.txt (<<>> if absent)
  bin_file,              \* lines of binary_feature.txt (<<>> if absent)
  categorical_indicator, \* external mode: one boolean per attribute
  df,                    \* the table as loaded (line 34, line 54), never written afterwards
  X,                     \* the feature table: column name -> sequence of cells
  dtype,                 \* column name -> "int64" | "float64" | "object"
  columns,               \* X.columns, in order
  y,                     \* the target vector
  all_cols, num_cols, cat_cols, bin_cols,
  data_cut,              \* NoCut, or the number of cuts
  train, val, test,      \* row ids of train_dataset, val_dataset, test_dataset, in order
  col_splits, new_col_splits,
  train_subset_list      \* sequence of [rows, cols], one per cut

vars == <<pc, err, df, local, dataset_config, num_file, bin_file, categorical_indicator,
          X, dtype, columns, y, all_cols, num_cols, cat_cols, bin_cols, data_cut,
          train, val, test, col_splits, new_col_splits, train_subset_list>>

(***************************************************************************)
(* Bounds of the model.                                                    *)
(***************************************************************************)
MaxRows == 10      \* SpecCut: tables of 1..MaxRows rows
MaxCols == 5       \* SpecCut: tables of 1..MaxCols retained columns, data_cut up to MaxCols
NRows == 3         \* Spec: rows of the small table

\* data_cut=None (the default of the parameter)
NoCut == 0

\* the name under which the dataset is looked up in dataset_config
dataname == "d"

(***************************************************************************)
(* Sequence helpers.                                                       *)
(***************************************************************************)
Range(s) == {s[i] : i \in DOMAIN s}

\* the list comprehension [c for c in s if P(c)]
RECURSIVE Filter(_, _)
Filter(s, keep) ==
  IF s = <<>> THEN <<>>
  ELSE IF Head(s) \in keep THEN <<Head(s)>> \o Filter(Tail(s), keep)
       ELSE Filter(Tail(s), keep)

\* python slice s[i:j] with 0 <= i, j (0-based, half-open), clipped to the sequence
Slice(s, i, j) ==
  LET hi == IF j > Len(s) THEN Len(s) ELSE j
  IN  IF i >= hi THEN <<>> ELSE SubSeq(s, i + 1, hi)

\* all orderings of the elements of a sequence without repetitions
Perms(s) ==
  {p \in [1..Len(s) -> Range(s)] : \A i, j \in 1..Len(s) : i # j => p[i] # p[j]}

\* all ordered samples of m distinct elements of set S
Samples(S, m) ==
  {p \in [1..m -> S] : \A i, j \in 1..m : i # j => p[i] # p[j]}

(***************************************************************************)
(* Column names.  X.columns of the SpecCut tables are the first n names;   *)
(* np.unique orders names as strings, which on these is the table order.   *)
(***************************************************************************)
ColNames == <<"a", "b", "c", "d", "e", "f", "g", "h">>

\* np.unique(list).tolist(): the distinct names, sorted
Unique(s) == Filter(ColNames, Range(s))

(***************************************************************************)
(* Cells of the feature table: a missing value, a number n/d (d = 1 until  *)
(* the scaler has run), or a string.                                       *)
(***************************************************************************)
NA == [t |-> "na"]
Num(n, d) == [t |-> "num", n |-> n, d |-> d]
StrCell(s) == [t |-> "str", s |-> s]

\* str.lower() on the strings of the model
Lower(s) ==
  CASE s = "A" -> "a"
    [] s = "A " -> "a "
    [] s = "Y" -> "y"
    [] OTHER -> s

\* str.strip() on the strings of the model
Strip(s) ==
  CASE s = "A " -> "A"
    [] s = "a " -> "a"
    [] OTHER -> s

\* str(x) of an int64 value and of a float64 value n/d
IntStr(n) == <<"0", "1", "2", "3">>[n + 1]
FloatStr(n, d) ==
  IF d = 2 THEN <<"0.0", "0.5", "1.0">>[n + 1]
  ELSE <<"0.0", "1.0", "2.0", "3.0">>[n + 1]

\* the order of the strings of the model (upper case sorts first)
StrOrder == <<"Y", "n", "y">>
StrRank(s) == CHOOSE i \in 1..Len(StrOrder) : StrOrder[i] = s

\* a < b on the cells of one column
Less(a, b) ==
  IF a.t = "num" THEN a.n * b.d < b.n * a.d ELSE StrRank(a.s) < StrRank(b.s)

\* the dtype pandas gives a column read from these cells
DtypeOf(col) ==
  IF \E i \in DOMAIN col : col[i].t = "str" THEN "object"
  ELSE IF \E i \in DOMAIN col : col[i] = NA THEN "float64"
  ELSE "int64"

\* Series.nunique(): the distinct non-missing values
NUnique(col) == Cardinality(Range(col) \ {NA})

\* Series.mode()[0] raises when every entry is missing (mode() is empty)
ModeRaises(col) == Range(col) \ {NA} = {}

\* Series.mode()[0]: the most frequent value, the smallest one on a tie
Mode(col) ==
  LET vals == Range(col) \ {NA}
      count(v) == Cardinality({i \in DOMAIN col : col[i] = v})
  IN  CHOOSE v \in vals :
        \A w \in vals \ {v} : count(w) < count(v) \/ (count(w) = count(v) /\ Less(v, w))

\* X[col].fillna(X[col].mode()[0], inplace=True)
FillNa(col) == [i \in DOMAIN col |-> IF col[i] = NA THEN Mode(col) ELSE col[i]]

\* a faulty scaler: the column is divided by its maximum, the minimum is not taken off
ScaleByMax(col) ==
  LET hi == CHOOSE v \in Range(col) : \A w \in Range(col) : ~Less(v, w)
  IN  [i \in DOMAIN col |-> Num(col[i].n, hi.n)]

\* MinMaxScaler().fit_transform on one column of numbers: (x - min) / (max - min),
\* the divisor being 1 for a constant column
MinMaxScale(col) ==
  LET lo == CHOOSE v \in Range(col) : \A w \in Range(col) : ~Less(w, v)
      hi == CHOOSE v \in Range(col) : \A w \in Range(col) : ~Less(v, w)
      span == hi.n - lo.n
  IN  [i \in DOMAIN col |-> Num(col[i].n - lo.n, IF span = 0 THEN 1 ELSE span)]

\* astype(str) on one cell of a column of the given dtype
Str(c, dt) ==
  IF c.t = "str" THEN c.s
  ELSE IF dt = "int64" THEN IntStr(c.n)
  ELSE FloatStr(c.n, c.d)

\* a faulty token choice: binary_indicator is ignored
DefaultTokensOnly(config) == {"yes", "true", "1", "t"}

\* the tokens a binary column maps to 1: dataset_config[dataname]['binary_indicator']
\* when given (lines 106-108), else the default list (lines 110, 112)
TruthTokens(config) ==
  IF dataname \in DOMAIN config /\ "binary_indicator" \in DOMAIN config[dataname]
  THEN config[dataname].binary_indicator
  ELSE {"yes", "true", "1", "t"}

\* lambda x: 1 if x.lower() in tokens else 0, on the stringified cell
BinEncode(c, dt, tokens) == Num(IF Lower(Str(c, dt)) \in tokens THEN 1 ELSE 0, 1)

(***************************************************************************)
(* Lines 29-88: the source is resolved and the columns get their roles.    *)
(***************************************************************************)
\* [x.strip().lower() for x in f.readlines()]
ReadNames(lines) == [i \in DOMAIN lines |-> Lower(Strip(lines[i]))]

\* X.columns = names
Rename(table, old, names) ==
  [c \in Range(names) |-> table[old[CHOOSE i \in DOMAIN names : names[i] = c]]]

\* LabelEncoder().fit_transform(y.values): classes numbered from 0 in sorted order
LabelOrder == <<"bad", "good">>
LabelEncode(t) ==
  LET present == Filter(LabelOrder, Range(t))
  IN  [i \in DOMAIN t |-> (CHOOSE k \in DOMAIN present : present[k] = t[i]) - 1]

\* lines 31-50
ResolveLocal ==
  /\ pc = "resolve"
  /\ local
  /\ LET names == [i \in DOMAIN columns |-> Lower(columns[i])]
         nums == ReadNames(num_file)
         bins == ReadNames(bin_file)
     IN  /\ columns' = names
         /\ X' = Rename(X, columns, names)
         /\ dtype' = Rename(dtype, columns, names)
         /\ all_cols' = names
         /\ num_cols' = nums
         /\ bin_cols' = bins
         /\ cat_cols' = Filter(names, Range(names) \ (Range(nums) \cup Range(bins)))
  /\ pc' = "encode"
  /\ UNCHANGED <<err, df, local, dataset_config, num_file, bin_file, categorical_indicator, y,
                 data_cut, train, val, test, col_splits, new_col_splits, train_subset_list>>

\* lines 53-88
ResolveExternal ==
  /\ pc = "resolve"
  /\ ~local
  /\ LET has_entry == dataname \in DOMAIN dataset_config
         renamed == has_entry /\ "cols" \in DOMAIN dataset_config[dataname]
         attribute_names == IF renamed THEN dataset_config[dataname].cols ELSE columns
     IN  IF Len(attribute_names) # Len(columns)
         THEN \* X.columns = new_cols: length mismatch
              /\ pc' = "raised"
              /\ err' = "ValueError"
              /\ UNCHANGED <<X, dtype, columns, y, all_cols, num_cols, cat_cols, bin_cols>>
         ELSE LET table == Rename(X, columns, attribute_names)
                  drop_cols == {c \in Range(attribute_names) : NUnique(table[c]) <= 1}
                  flagged == {attribute_names[i] : i \in {j \in DOMAIN attribute_names :
                                                            categorical_indicator[j]}}
                  cats == Filter(attribute_names, flagged \ drop_cols)
                  nums == Filter(attribute_names,
                                 (Range(attribute_names) \ flagged) \ drop_cols)
              IN  /\ columns' = attribute_names
                  /\ X' = table
                  /\ dtype' = Rename(dtype, columns, attribute_names)
                  /\ all_cols' = Filter(attribute_names, Range(attribute_names) \ drop_cols)
                  /\ num_cols' = nums
                  /\ IF has_entry /\ "bin" \notin DOMAIN dataset_config[dataname]
                     THEN \* line 84 reads bin_cols, which no branch of lines 81-83 assigned
                          /\ pc' = "raised"
                          /\ err' = "UnboundLocalError"
                          /\ cat_cols' = cats
                          /\ UNCHANGED <<bin_cols, y>>
                     ELSE LET bins == IF has_entry
                                      THEN Filter(cats, Range(dataset_config[dataname].bin))
                                      ELSE <<>>
                          IN  /\ bin_cols' = bins
                              /\ cat_cols' = Filter(cats, Range(cats) \ Range(bins))
                              /\ y' = LabelEncode(y)
                              /\ pc' = "encode"
                              /\ err' = err
  /\ UNCHANGED <<df, local, dataset_config, num_file, bin_file, categorical_indicator,
                 data_cut, train, val, test, col_splits, new_col_splits, train_subset_list>>

(***************************************************************************)
(* Lines 90-116: imputation and encoding, role by role.  Each stage maps   *)
(* a table state [X, dtype, err] to the next one; a stage that raises      *)
(* sets err and the later stages are not run.                              *)
(***************************************************************************)
Raise(st, e) == [st EXCEPT !.err = e]

\* X[col] for a name that is no column of X raises KeyError; so does mode()[0]
\* of a column without values
ImputeRaises(st, cols) ==
  \E i \in DOMAIN cols :
    \/ cols[i] \notin DOMAIN st.X
    \/ ModeRaises(st.X[cols[i]])

\* lines 92-94
EncodeNum(st, cols) ==
  IF st.err # "" \/ cols = <<>> THEN st
  ELSE IF ImputeRaises(st, cols) THEN Raise(st, "KeyError")
  ELSE IF \E c \in Range(cols) : st.dtype[c] = "object"
       THEN Raise(st, "ValueError")   \* could not convert string to float
  ELSE [st EXCEPT
          !.X = [c \in DOMAIN st.X |->
                   IF c \in Range(cols) THEN MinMaxScale(FillNa(st.X[c])) ELSE st.X[c]],
          !.dtype = [c \in DOMAIN st.X |->
                   IF c \in Range(cols) THEN "float64" ELSE st.dtype[c]]]

\* lines 96-102, encode_cat=False
EncodeCat(st, cols) ==
  IF st.err # "" \/ cols = <<>> THEN st
  ELSE IF ImputeRaises(st, cols) THEN Raise(st, "KeyError")
  ELSE [st EXCEPT
          !.X = [c \in DOMAIN st.X |->
                   IF c \in Range(cols)
                   THEN [i \in DOMAIN st.X[c] |-> StrCell(Str(FillNa(st.X[c])[i], st.dtype[c]))]
                   ELSE st.X[c]],
          !.dtype = [c \in DOMAIN st.X |->
                   IF c \in Range(cols) THEN "object" ELSE st.dtype[c]]]

\* lines 104-114
EncodeBin(st, cols, tokens) ==
  IF st.err # "" \/ cols = <<>> THEN st
  ELSE IF ImputeRaises(st, cols) THEN Raise(st, "KeyError")
  ELSE [st EXCEPT
          !.X = [c \in DOMAIN st.X |->
                   IF c \in Range(cols)
                   THEN [i \in DOMAIN st.X[c] |->
                           BinEncode(FillNa(st.X[c])[i], st.dtype[c], tokens)]
                   ELSE st.X[c]],
          !.dtype = [c \in DOMAIN st.X |->
                   IF c \in Range(cols) THEN "int64" ELSE st.dtype[c]]]

Encode ==
  /\ pc = "encode"
  /\ LET st0 == [X |-> X, dtype |-> dtype, err |-> ""]
         st1 == EncodeNum(st0, num_cols)
         st2 == EncodeCat(st1, cat_cols)
         st3 == EncodeBin(st2, bin_cols, TruthTokens(dataset_config))
         order == bin_cols \o num_cols \o cat_cols     \* line 116
     IN  IF st3.err # ""
         THEN /\ pc' = "raised"
              /\ err' = st3.err
              /\ UNCHANGED <<X, dtype, columns>>
         ELSE /\ pc' = "split"
              /\ err' = err
              /\ columns' = order
              /\ X' = [c \in Range(order) |-> st3.X[c]]
              /\ dtype' = [c \in Range(order) |-> st3.dtype[c]]
  /\ UNCHANGED <<df, local, dataset_config, num_file, bin_file, categorical_indicator, y,
                 all_cols, num_cols, cat_cols, bin_cols, data_cut, train, val, test,
                 col_splits, new_col_splits, train_subset_list>>

(***************************************************************************)
(* Lines 118-124: train_test_split and the validation carve-out.           *)
(***************************************************************************)
\* ceil(0.2 * n): sklearn's n_test for test_size=0.2
NTest(n) == (n + 4) \div 5

\* the classes of y and the size of the least populated one
Classes(t) == Range(t)
ClassCount(t, c) == Cardinality({i \in DOMAIN t : t[i] = c})
MinClassCount(t) ==
  CHOOSE m \in 0..Len(t) :
    /\ \E c \in Classes(t) : ClassCount(t, c) = m
    /\ \A c \in Classes(t) : ClassCount(t, c) >= m

\* train_test_split(..., test_size=0.2, stratify=y) raises ValueError when
\* the train side would be empty, a class has fewer than 2 members, or a
\* side is smaller than the number of classes
SplitRaises(t) ==
  LET n == Len(t) IN
    \/ n - NTest(n) = 0
    \/ MinClassCount(t) < 2
    \/ n - NTest(n) < Cardinality(Classes(t))
    \/ NTest(n) < Cardinality(Classes(t))

\* the seeds the calls are made with: seed=123, the default of the parameter
Seeds == {123}

\* the shuffled row order the seeded generator produces for n rows: a
\* permutation of 1..n determined by the seed
Shuffled(n, sd) ==
  [i \in 1..n |-> IF sd % 2 = 0 THEN ((i - 1 + sd) % n) + 1
                  ELSE n - ((i - 1 + sd) % n)]

\* int(len(y)*0.1)
ValSize(n) == n \div 10

\* python s[-k:]  (k = 0 gives s[0:], the whole sequence)
LastRows(s, k) == IF k = 0 THEN s ELSE Slice(s, IF Len(s) > k THEN Len(s) - k ELSE 0, Len(s))

\* a faulty carve-out: the validation rows are not taken off the train partition
KeepsValidationRows(s, k) == s

\* python s[:-k]  (k = 0 gives s[:0], the empty sequence)
AllButLast(s, k) == IF k = 0 THEN <<>> ELSE Slice(s, 0, IF Len(s) > k THEN Len(s) - k ELSE 0)

SplitTrainValTest ==
  /\ pc = "split"
  /\ \E seed \in Seeds :
     IF SplitRaises(y)
     THEN /\ pc' = "raised"
          /\ err' = "ValueError"
          /\ UNCHANGED <<train, val, test>>
     ELSE LET n == Len(y)
              order == Shuffled(n, seed)
              test_dataset == SubSeq(order, 1, NTest(n))
              train_dataset == SubSeq(order, NTest(n) + 1, n)
              val_size == ValSize(n)
          IN  /\ test' = test_dataset
              /\ val' = LastRows(train_dataset, val_size)
              /\ train' = AllButLast(train_dataset, val_size)
              /\ pc' = IF data_cut # NoCut THEN "cut" ELSE "returned"
              /\ err' = err
  /\ UNCHANGED <<df, local, dataset_config, num_file, bin_file, categorical_indicator, X, dtype,
                 columns, y, all_cols, num_cols, cat_cols, bin_cols, data_cut,
                 col_splits, new_col_splits, train_subset_list>>

(***************************************************************************)
(* Lines 126-146: the data_cut shards.                                     *)
(***************************************************************************)
\* np.split(cols, range(0, len(cols), sp_size))[1:]  for sp_size > 0
ColSplits(cols, sp_size) ==
  LET n == Len(cols)
      nb == (n + sp_size - 1) \div sp_size
  IN  [j \in 1..nb |-> Slice(cols, (j - 1) * sp_size, j * sp_size)]

\* np.setdiff1d(all_cols, split)
SetDiff(cols, split) == Range(cols) \ Range(split)

\* np.random.choice(pool, m, replace=False) raises ValueError when m > len(pool)
ChoiceRaises(cols, splits, m) ==
  \E j \in DOMAIN splits : m > Cardinality(SetDiff(cols, splits[j]))

\* lines 134-138: the last split is handed out one column per earlier split
\* and dropped, when there are more splits than cuts
Redistribute(splits, news, cut) ==
  IF Len(splits) > cut
  THEN LET last == splits[Len(splits)]
           given == [i \in DOMAIN news |->
                       IF i <= Len(last) THEN Unique(news[i] \o <<last[i]>>) ELSE news[i]]
       IN  SubSeq(given, 1, Len(given) - 1)
  ELSE news

\* a faulty split: k blocks of len // k rows, the last one taking the remainder
RemainderToLast(rows, k) ==
  LET each == Len(rows) \div k
  IN  [i \in 1..k |-> Slice(rows, (i - 1) * each, IF i = k THEN Len(rows) ELSE i * each)]

\* np.array_split(rows, k): k consecutive blocks, the first len % k one longer
ArraySplit(rows, k) ==
  LET n == Len(rows)
      each == n \div k
      extras == n % k
      start(i) == (i - 1) * each + (IF i - 1 < extras THEN i - 1 ELSE extras)
  IN  [i \in 1..k |-> Slice(rows, start(i), start(i + 1))]

\* lines 143-146
Subsets(blocks, news, cut) ==
  [i \in 1..cut |-> [rows |-> blocks[i], cols |-> news[i]]]

Cut ==
  /\ pc = "cut"
  /\ \E shuffled \in Perms(all_cols) :
       LET sp_size == Len(shuffled) \div data_cut IN
       /\ all_cols' = shuffled
       /\ IF sp_size = 0
          THEN \* range() arg 3 must not be zero
               /\ pc' = "raised"
               /\ err' = "ValueError"
               /\ UNCHANGED <<col_splits, new_col_splits, train_subset_list>>
          ELSE LET splits == ColSplits(shuffled, sp_size) IN
               IF ChoiceRaises(shuffled, splits, sp_size \div 2)
               THEN /\ pc' = "raised"
                    /\ err' = "ValueError"
                    /\ col_splits' = splits
                    /\ UNCHANGED <<new_col_splits, train_subset_list>>
               ELSE \E candidate_cols \in
                        [DOMAIN splits -> Samples(Range(shuffled), sp_size \div 2)] :
                      /\ \A j \in DOMAIN splits :
                           Range(candidate_cols[j]) \subseteq SetDiff(shuffled, splits[j])
                      /\ LET news == Redistribute(
                                       splits,
                                       [j \in DOMAIN splits |-> splits[j] \o candidate_cols[j]],
                                       data_cut)
                         IN  /\ col_splits' = splits
                             /\ new_col_splits' = news
                             /\ train_subset_list' =
                                  Subsets(ArraySplit(train, data_cut), news, data_cut)
                             /\ pc' = "returned"
                             /\ err' = err
  /\ UNCHANGED <<df, local, dataset_config, num_file, bin_file, categorical_indicator, X, dtype,
                 columns, y, num_cols, cat_cols, bin_cols, data_cut, train, val, test>>

(***************************************************************************)
(* Spec: whole calls with data_cut = None.  The table has the columns "A"  *)
(* (numbers) and "b" (strings) and NRows rows; in local mode the sidecar   *)
(* files vary, in external mode the categorical indicator.                 *)
(***************************************************************************)
RawColumns == <<"A", "b">>
NumValues == {NA, Num(1, 1), Num(3, 1)}
StrValues == {StrCell("Y"), StrCell("n"), StrCell("y")}

\* target_label: one class, or a second class with a single member
Targets == {[i \in 1..NRows |-> "good"], [i \in 1..NRows |-> IF i = 1 THEN "bad" ELSE "good"]}

NoEntry == [k \in {} |-> <<>>]
Entry(e) == (dataname :> e)

NumFiles == {<<>>, <<"A ">>, <<"z">>}
BinFiles == {<<>>, <<"b">>, <<"A ">>, <<"A ", "b">>}
LocalConfigs == {NoEntry, Entry([binary_indicator |-> {"y", "n"}])}
ExternalConfigs ==
  {NoEntry,
   Entry([bin |-> <<"b">>]),
   Entry([bin |-> <<"A", "b">>]),
   Entry([cols |-> <<"a", "b">>]),
   Entry([cols |-> <<"a", "b">>, bin |-> <<"a", "b">>]),
   Entry([cols |-> <<"a">>, bin |-> <<>>]),
   Entry([bin |-> <<"b">>, binary_indicator |-> {"y", "n"}])}

Init ==
  /\ pc = "resolve"
  /\ err = ""
  /\ local \in BOOLEAN
  /\ columns = RawColumns
  /\ \E colA \in [1..NRows -> NumValues], colb \in [1..NRows -> StrValues] :
       X = ("A" :> colA) @@ ("b" :> colb)
  /\ df = X
  /\ dtype = [c \in DOMAIN X |-> DtypeOf(X[c])]
  /\ y \in Targets
  /\ IF local
     THEN /\ num_file \in NumFiles
          /\ bin_file \in BinFiles
          /\ categorical_indicator = <<>>
          /\ dataset_config \in LocalConfigs
     ELSE /\ num_file = <<>>
          /\ bin_file = <<>>
          /\ categorical_indicator \in [1..Len(RawColumns) -> BOOLEAN]
          /\ dataset_config \in ExternalConfigs
  /\ all_cols = <<>>
  /\ num_cols = <<>>
  /\ bin_cols = <<>>
  /\ cat_cols = <<>>
  /\ data_cut = NoCut
  /\ train = <<>>
  /\ val = <<>>
  /\ test = <<>>
  /\ col_splits = <<>>
  /\ new_col_splits = <<>>
  /\ train_subset_list = <<>>

Next == ResolveLocal \/ ResolveExternal \/ Encode \/ SplitTrainValTest

Spec == Init /\ [][Next]_vars

(***************************************************************************)
(* SpecCut: the call from line 118 on.  The table is an encoded local      *)
(* table of nrows rows whose ncols columns are all categorical; y has one  *)
(* class.                                                                  *)
(***************************************************************************)
InitCut ==
  /\ pc = "split"
  /\ err = ""
  /\ local = TRUE
  /\ dataset_config = [k \in {} |-> <<>>]
  /\ num_file = <<>>
  /\ bin_file = <<>>
  /\ categorical_indicator = <<>>
  /\ \E nrows \in 1..MaxRows, ncols \in 1..MaxCols :
       /\ columns = SubSeq(ColNames, 1, ncols)
       /\ X = [c \in Range(columns) |-> [i \in 1..nrows |-> StrCell("y")]]
       /\ df = X
       /\ dtype = [c \in Range(columns) |-> "object"]
       /\ y = [i \in 1..nrows |-> 0]
  /\ all_cols = columns
  /\ num_cols = <<>>
  /\ bin_cols = <<>>
  /\ cat_cols = columns
  /\ data_cut \in 0..MaxCols
  /\ train = <<>>
  /\ val = <<>>
  /\ test = <<>>
  /\ col_splits = <<>>
  /\ new_col_splits = <<>>
  /\ train_subset_list = <<>>

NextCut == SplitTrainValTest \/ Cut

SpecCut == InitCut /\ [][NextCut]_vars

(***************************************************************************)
(* Properties.  Helper definitions first.                                  *)
(***************************************************************************)
NoDup(s) == Cardinality(Range(s)) = Len(s)

RECURSIVE Concat(_)
Concat(ss) == IF ss = <<>> THEN <<>> ELSE Head(ss) \o Concat(Tail(ss))

\* the rows of the returned train partition, in order: train itself, or the
\* row blocks of the shard list one after the other
ReturnedTrain ==
  IF data_cut = NoCut THEN train
  ELSE Concat([i \in DOMAIN train_subset_list |-> train_subset_list[i].rows])

AllRows == 1..Len(y)

\* the i-th base block of the shuffled column list for k cuts
BaseBlock(i, k) ==
  LET sp == Len(all_cols) \div k IN SubSeq(all_cols, (i - 1) * sp + 1, i * sp)

ShardCols == UNION {Range(train_subset_list[i].cols) : i \in DOMAIN train_subset_list}

Encoded == pc \in {"split", "returned"}

\* the name column c of X had when the table was loaded
RawName(c) == IF c = "b" THEN "b" ELSE "A"

IsZero(c) == c.t = "num" /\ c.n = 0
IsOne(c) == c.t = "num" /\ c.n = c.d
InUnit(c) == c.t = "num" /\ c.d > 0 /\ 0 <= c.n /\ c.n <= c.d

HasOverride ==
  /\ dataname \in DOMAIN dataset_config
  /\ "binary_indicator" \in DOMAIN dataset_config[dataname]
  /\ dataset_config[dataname].binary_indicator = {"y", "n"}

YNY == <<StrCell("y"), StrCell("n"), StrCell("y")>>

\* C1: whenever load_data returns, train (the union of the row blocks when
\* data_cut is given), val and test are pairwise disjoint, without repeated
\* rows, and together hold every row of the table exactly once.
C1_PartitionCoversOnce ==
  pc = "returned" =>
    /\ Len(ReturnedTrain) + Len(val) + Len(test) = Len(y)
    /\ NoDup(ReturnedTrain \o val \o test)
    /\ Range(ReturnedTrain) \cup Range(val) \cup Range(test) = AllRows

C1_Witness ==
  /\ pc = "returned"
  /\ data_cut >= 2
  /\ Len(y) >= 10
  /\ val # <<>>
  /\ \A i \in DOMAIN train_subset_list : train_subset_list[i].rows # <<>>

\* C2: whenever load_data returns, val has exactly floor(0.1 * N) rows and
\* train is the rest of the 80% split; for N < 10 val is empty.
C2_ValIsTenth ==
  pc = "returned" =>
    /\ Len(val) = Len(y) \div 10
    /\ Len(train) = Len(y) - Len(test) - Len(y) \div 10
    /\ (Len(y) < 10 => val = <<>>)

\* C3: with data_cut = k >= 1 and at least k retained columns, the call does
\* not raise once the rows are split, and returns exactly k shards.
C3_EveryCutReturns ==
  (data_cut >= 1 /\ data_cut <= Len(all_cols) /\ test # <<>>) =>
    /\ pc # "raised"
    /\ (pc = "returned" => Len(train_subset_list) = data_cut)

\* C4: whenever the shard list is returned, the row blocks of the shards are
\* consecutive blocks of the training partition in its order, their sizes
\* differ by at most one, together they are exactly the training rows, and
\* the columns of shard i include the i-th base block of the shuffled list.
C4_ShardsPartitionTrain ==
  (pc = "returned" /\ data_cut # NoCut) =>
    /\ Len(train_subset_list) = data_cut
    /\ ReturnedTrain = train
    /\ NoDup(ReturnedTrain)
    /\ \A i, j \in DOMAIN train_subset_list :
         Len(train_subset_list[i].rows) - Len(train_subset_list[j].rows) <= 1
    /\ \A i \in DOMAIN train_subset_list :
         Range(BaseBlock(i, data_cut)) \subseteq Range(train_subset_list[i].cols)

C4_Witness ==
  /\ pc = "returned"
  /\ data_cut >= 2
  /\ Len(train) % data_cut # 0
  /\ Len(train) > data_cut
  /\ Len(all_cols) % data_cut # 0

C6_OverrideMapsBothToOne ==
  (Encoded /\ HasOverride /\ "b" \in Range(bin_cols) /\ SubSeq(df["b"], 1, 3) = YNY) =>
    SubSeq(X["b"], 1, 3) = <<Num(1, 1), Num(1, 1), Num(1, 1)>>

\* C6, as claimed: ... is encoded to [1,0,1].
C6_OverrideMapsYesNo ==
  (Encoded /\ HasOverride /\ "b" \in Range(bin_cols) /\ SubSeq(df["b"], 1, 3) = YNY) =>
    SubSeq(X["b"], 1, 3) = <<Num(1, 1), Num(0, 1), Num(1, 1)>>

C6_Witness ==
  /\ pc = "returned"
  /\ HasOverride
  /\ "b" \in Range(bin_cols)
  /\ SubSeq(df["b"], 1, 3) = YNY
  /\ \A i \in DOMAIN X["b"] : X["b"][i].t = "num"

\* C7: encoding never raises on account of missing values: when it raises,
\* a role list names a column the table does not have, or a numeric column
\* holds strings.
C7_MissingNeverRaises ==
  (pc = "raised" /\ err = "KeyError") =>
    \E c \in Range(num_cols \o cat_cols \o bin_cols) : c \notin DOMAIN X

\* C8: in external mode resolution does not fail for want of a `bin` field,
\* and bin_cols holds the entries of `bin` among the non-dropped categorical
\* columns, or nothing when there is no entry or no `bin` field.
C8_BinColsOrEmpty ==
  ~local =>
    /\ err # "UnboundLocalError"
    /\ pc = "encode" =>
         Range(bin_cols) =
           IF dataname \in DOMAIN dataset_config /\ "bin" \in DOMAIN dataset_config[dataname]
           THEN {c \in Range(dataset_config[dataname].bin) :
                   /\ c \in Range(all_cols)
                   /\ \E i \in DOMAIN columns : columns[i] = c /\ categorical_indicator[i]}
           ELSE {}

C10_EveryColumnInSomeShard ==
  (pc = "returned" /\ data_cut >= 1 /\ data_cut <= Len(all_cols)) =>
    Range(all_cols) \subseteq ShardCols

====
